---- MODULE Spec2Model ----
(***************************************************************************)
(* Asynchronous pipe transport of r2pipe (src/src/r2async.rs): spawning    *)
(* the radare2 child, the one-byte handshake, newline-terminated requests, *)
(* null-terminated response frames, JSON decoding, close and drop.         *)
(*                                                                         *)
(* Text is a sequence of Unicode code points, a byte string a sequence of  *)
(* numbers 0..255.  The child process is the environment: it consumes one  *)
(* request line at a time and answers with one frame, or exits.            *)
(***************************************************************************)
EXTENDS Integers, Sequences, FiniteSets, TLC

\* ---------------------------------------------------------------- bounds
MaxLen == 1        \* longest response payload the child emits in a session, in bytes
MaxText == 3       \* longest response payload of the single-frame specification
MaxBuf == 2        \* capacity of the child's stdout pipe, in bytes
MaxCalls == 2      \* cmd / cmdj calls issued on one transport
MaxCloses == 2     \* close calls issued on one transport

\* ------------------------------------------------------ program constants
NUL == 0           \* frame terminator, 0u8
LF == 10           \* "\n" appended to every request

\* "q!" : the quit command close() builds
QuitText == <<113, 33>>

\* ------------------------------------------------------------ input sets
\* Bytes a response payload is made of: newline, ',', '0', '1', '[', ']', and
\* the two bytes of U+00E9 (0xC3 0xA9), which alone or in the wrong order are
\* not UTF-8.
PayloadBytes == {10, 44, 48, 49, 91, 93, 169, 195}

RECURSIVE SeqsUpTo(_, _)
SeqsUpTo(S, n) ==
    IF n = 0 THEN {<<>>}
    ELSE LET shorter == SeqsUpTo(S, n - 1)
         IN  shorter \cup {Append(s, x) : s \in shorter, x \in S}

\* Every payload of at most MaxText bytes.
AllPayloads == SeqsUpTo(PayloadBytes, MaxText)

\* The payloads the child answers with in a session: empty, "1", a lone lead
\* byte and U+00E9.
SamplePayloads ==
    { <<>>, <<49>>, <<195>>, <<195, 169>> }

Payloads == {p \in SamplePayloads : Len(p) <= MaxLen}

\* Request texts a caller passes: " i " (padded) and "i\ni" (two lines).
Texts == { <<32, 105, 32>>, <<105, 10, 105>> }

\* The two public types a command can be issued through.
Entries == {"R2PipeAsync", "R2PipeSpawnAsync"}

\* ------------------------------------------------------------ return values
NoJson == [t |-> "none", n |-> 0, a |-> <<>>]
JNum(k) == [t |-> "num", n |-> k, a |-> <<>>]
JArr(elems) == [t |-> "arr", n |-> 0, a |-> elems]

NoRet == [kind |-> "None", err |-> "", str |-> <<>>, json |-> NoJson]
UnitRet == [kind |-> "Unit", err |-> "", str |-> <<>>, json |-> NoJson]
OkStr(s) == [kind |-> "Str", err |-> "", str |-> s, json |-> NoJson]
OkJson(v) == [kind |-> "Json", err |-> "", str |-> <<>>, json |-> v]
OkTransport == [kind |-> "Transport", err |-> "", str |-> <<>>, json |-> NoJson]
Err(e) == [kind |-> "Err", err |-> e, str |-> <<>>, json |-> NoJson]

\* ------------------------------------------------------------------ UTF-8
\* str::as_bytes: the UTF-8 encoding of a text.
EncodeCp(cp) ==
    IF cp < 128 THEN <<cp>>
    ELSE IF cp < 2048 THEN <<192 + (cp \div 64), 128 + (cp % 64)>>
    ELSE IF cp < 65536
        THEN <<224 + (cp \div 4096), 128 + ((cp \div 64) % 64), 128 + (cp % 64)>>
    ELSE <<240 + (cp \div 262144), 128 + ((cp \div 4096) % 64),
           128 + ((cp \div 64) % 64), 128 + (cp % 64)>>

RECURSIVE as_bytes(_)
as_bytes(text) ==
    IF text = <<>> THEN <<>> ELSE EncodeCp(Head(text)) \o as_bytes(Tail(text))

IsCont(b) == b >= 128 /\ b <= 191

\* Length of the sequence a lead byte announces, 0 for a byte that cannot lead.
LeadLen(b) ==
    IF b < 128 THEN 1
    ELSE IF b >= 194 /\ b <= 223 THEN 2
    ELSE IF b >= 224 /\ b <= 239 THEN 3
    ELSE IF b >= 240 /\ b <= 244 THEN 4
    ELSE 0

\* The code point of the well-formed sequence of n bytes at b[i], or -1.
CpAt(b, i, n) ==
    IF n = 0 \/ i + n - 1 > Len(b) THEN -1
    ELSE IF \E k \in 1..(n - 1) : ~IsCont(b[i + k]) THEN -1
    ELSE LET cp == IF n = 1 THEN b[i]
                   ELSE IF n = 2 THEN (b[i] - 192) * 64 + (b[i + 1] - 128)
                   ELSE IF n = 3 THEN (b[i] - 224) * 4096 + (b[i + 1] - 128) * 64
                                      + (b[i + 2] - 128)
                   ELSE (b[i] - 240) * 262144 + (b[i + 1] - 128) * 4096
                        + (b[i + 2] - 128) * 64 + (b[i + 3] - 128)
             least == IF n = 1 THEN 0 ELSE IF n = 2 THEN 128
                      ELSE IF n = 3 THEN 2048 ELSE 65536
         IN  IF cp < least \/ (cp >= 55296 /\ cp <= 57343) \/ cp > 1114111
             THEN -1 ELSE cp

\* String::from_utf8 from position i on: [ok, text].
RECURSIVE from_utf8(_, _, _)
from_utf8(b, i, acc) ==
    IF i > Len(b) THEN [ok |-> TRUE, text |-> acc]
    ELSE LET n == LeadLen(b[i])
             cp == CpAt(b, i, n)
         IN  IF cp < 0 THEN [ok |-> FALSE, text |-> <<>>]
             ELSE from_utf8(b, i + n, Append(acc, cp))

\* ------------------------------------------------------------------- trim
\* char::is_whitespace: the White_Space code points.
IsWhitespace(c) ==
    \/ c \in 9..13
    \/ c \in {32, 133, 160, 5760, 8232, 8233, 8239, 8287, 12288}
    \/ c \in 8192..8202

RECURSIVE trim_start(_)
trim_start(text) ==
    IF text # <<>> /\ IsWhitespace(Head(text)) THEN trim_start(Tail(text)) ELSE text

RECURSIVE trim_end(_)
trim_end(text) ==
    IF text # <<>> /\ IsWhitespace(text[Len(text)])
    THEN trim_end(SubSeq(text, 1, Len(text) - 1)) ELSE text

\* Trimming at the front only.
trim_front_only(text) == trim_start(text)

\* str::trim, applied by R2PipeAsync::cmd and R2PipeAsync::cmdj.
trim(text) == trim_end(trim_start(text))

\* The request with a blank line after it.
RequestLineTwoNewlines(text) == as_bytes(text) \o <<LF, LF>>

\* The request line cmd() writes: the text and one newline.
RequestLine(text) == as_bytes(text) \o <<LF>>

\* The text a call through entry point `via` hands to R2PipeSpawnAsync::cmd.
EntryText(via, text) == IF via = "R2PipeAsync" THEN trim(text) ELSE text

\* ---------------------------------------------------------------- framing
\* Index of the first byte d of buf, 0 when there is none.
IndexOf(buf, d) ==
    IF \E i \in 1..Len(buf) : buf[i] = d
    THEN CHOOSE i \in 1..Len(buf) : buf[i] = d /\ \A j \in 1..(i - 1) : buf[j] # d
    ELSE 0

\* read_until as a reader that stops at the delimiter without storing it.
read_until_excl(delim, buf) ==
    LET i == IndexOf(buf, delim)
    IN  IF i > 0
        THEN [res |-> SubSeq(buf, 1, i - 1), rest |-> SubSeq(buf, i + 1, Len(buf))]
        ELSE [res |-> buf, rest |-> <<>>]

\* read_until through a reader built for the one call: what it buffered past
\* the delimiter is lost with it.
read_until_drain(delim, buf) ==
    LET i == IndexOf(buf, delim)
    IN  IF i > 0
        THEN [res |-> SubSeq(buf, 1, i), rest |-> <<>>]
        ELSE [res |-> buf, rest |-> <<>>]

\* AsyncBufReadExt::read_until on a stream holding buf: the bytes up to and
\* including the first delimiter, or everything there is when the stream ends
\* without one.  [res: the bytes appended to the vector, rest: left unread].
read_until(delim, buf) ==
    LET i == IndexOf(buf, delim)
    IN  IF i > 0
        THEN [res |-> SubSeq(buf, 1, i), rest |-> SubSeq(buf, i + 1, Len(buf))]
        ELSE [res |-> buf, rest |-> <<>>]

\* read_until returns once the delimiter is buffered or the stream has ended.
ReadReady(delim, buf, eof) == IndexOf(buf, delim) > 0 \/ eof

\* r2pipe::process_result: a frame that does not end in the terminator is a
\* premature close; otherwise the terminator is stripped and the payload
\* decoded as UTF-8.
process_result(res) ==
    IF res = <<>> \/ res[Len(res)] # NUL THEN Err("ProtocolError")
    ELSE LET d == from_utf8(SubSeq(res, 1, Len(res) - 1), 1, <<>>)
         IN  IF d.ok THEN OkStr(d.text) ELSE Err("EncodingError")

\* The last line of cmd with the vector converted in place: the terminator
\* is cut off when there is one and the rest decoded, with no check that the
\* frame was complete.
cmd_result_unchecked(res) ==
    LET body == IF res # <<>> /\ res[Len(res)] = NUL
                THEN SubSeq(res, 1, Len(res) - 1) ELSE res
        d == from_utf8(body, 1, <<>>)
    IN  IF d.ok THEN OkStr(d.text) ELSE Err("EncodingError")

\* The last line of R2PipeSpawnAsync::cmd: the bytes read go to
\* process_result, whose result is the call's.
cmd_result(res) == process_result(res)

\* ------------------------------------------------------------------- JSON
\* serde_json::from_str::<Value> on texts over the code points the child's
\* payload bytes decode to: whitespace, unsigned integers and arrays.  Every
\* other code point of that alphabet starts no JSON value.
IsJsonWs(c) == c \in {32, 10, 9, 13}
IsDigit(c) == c >= 48 /\ c <= 57

RECURSIVE SkipWs(_, _)
SkipWs(s, i) == IF i <= Len(s) /\ IsJsonWs(s[i]) THEN SkipWs(s, i + 1) ELSE i

ParseFail == [ok |-> FALSE, v |-> NoJson, pos |-> 0]

RECURSIVE ParseDigits(_, _, _)
ParseDigits(s, i, acc) ==
    IF i <= Len(s) /\ IsDigit(s[i]) THEN ParseDigits(s, i + 1, acc * 10 + (s[i] - 48))
    ELSE [ok |-> TRUE, v |-> JNum(acc), pos |-> i]

\* A number starting at s[i]: a leading 0 may not be followed by a digit.
ParseNumber(s, i) ==
    IF s[i] = 48
    THEN IF i + 1 <= Len(s) /\ IsDigit(s[i + 1]) THEN ParseFail
         ELSE [ok |-> TRUE, v |-> JNum(0), pos |-> i + 1]
    ELSE ParseDigits(s, i, 0)

RECURSIVE ParseValue(_, _)
RECURSIVE ParseElems(_, _, _)

\* The value starting at or after s[i], whitespace skipped.
ParseValue(s, i) ==
    LET j == SkipWs(s, i)
    IN  IF j > Len(s) THEN ParseFail
        ELSE IF IsDigit(s[j]) THEN ParseNumber(s, j)
        ELSE IF s[j] = 91
            THEN LET k == SkipWs(s, j + 1)
                 IN  IF k <= Len(s) /\ s[k] = 93
                     THEN [ok |-> TRUE, v |-> JArr(<<>>), pos |-> k + 1]
                     ELSE ParseElems(s, k, <<>>)
        ELSE ParseFail

\* The elements of an array from s[i] on: a value, then ',' or ']'.
ParseElems(s, i, acc) ==
    LET r == ParseValue(s, i)
    IN  IF ~r.ok THEN ParseFail
        ELSE LET j == SkipWs(s, r.pos)
             IN  IF j > Len(s) THEN ParseFail
                 ELSE IF s[j] = 93
                     THEN [ok |-> TRUE, v |-> JArr(Append(acc, r.v)), pos |-> j + 1]
                 ELSE IF s[j] = 44 THEN ParseElems(s, j + 1, Append(acc, r.v))
                 ELSE ParseFail

\* serde_json::from_str: one value, then nothing but whitespace.
from_str(s) ==
    LET r == ParseValue(s, 1)
    IN  IF ~r.ok THEN Err("MalformedJson")
        ELSE IF SkipWs(s, r.pos) <= Len(s) THEN Err("MalformedJson")
        ELSE OkJson(r.v)

\* cmdj without the is_empty test.
cmdj_result_nocheck(result) ==
    IF result.kind = "Err" THEN result ELSE from_str(result.str)

\* cmdj turning a parse failure into a value instead of an error.
cmdj_result_lenient(result) ==
    IF result.kind = "Err" THEN result
    ELSE IF result.str = <<>> THEN Err("EmptyResponse")
    ELSE IF from_str(result.str).kind = "Err" THEN OkJson(NoJson)
    ELSE from_str(result.str)

\* cmdj with the is_empty test inverted.
cmdj_result_inverted(result) ==
    IF result.kind = "Err" THEN result
    ELSE IF result.str # <<>> THEN Err("EmptyResponse")
    ELSE from_str(result.str)

\* R2PipeSpawnAsync::cmdj after its cmd() returned `result`: errors of cmd
\* propagate, the empty text is EmptyResponse, everything else is parsed.
cmdj_result(result) ==
    IF result.kind = "Err" THEN result
    ELSE IF result.str = <<>> THEN Err("EmptyResponse")
    ELSE from_str(result.str)

\* crate::Error from a std::io::Error (the `?` of spawn and cmd): failures of
\* spawn are SpawnFailed, failures on an open transport IoError.
FromIo(during) == IF during = "spawn" THEN Err("SpawnFailed") ELSE Err("IoError")

\* ------------------------------------------------------------------ state
VARIABLES
    pc,            \* the caller: "init", "handshake", "idle", "sent", "dropped", "failed",
                   \* "cancelled"
    child,         \* the process: "none", "starting", "running", "exited", "killed"
    argv,          \* the argument list the child was started with
    kill_on_drop,  \* Command::kill_on_drop as the child was configured
    sin,           \* bytes written to the child's stdin it has not consumed
    sout,          \* bytes the child wrote to stdout the transport has not read
    frames,        \* the frames making up sout, as the child emitted them
    op,            \* the operation in progress or last completed
    lastWrite,     \* the bytes of the last write_all on the child's stdin
    got,           \* the frame at the head of the stream when the last read ran
    result,        \* what R2PipeSpawnAsync::cmd returned inside the last call
    ret,           \* what the last completed call returned to its caller
    ncalls,        \* cmd / cmdj calls issued
    ncloses,       \* close calls issued
    launch,        \* what spawn was asked to start and what the system did
    req,           \* the entry point and the text of the last call issued
    sinTags,       \* for each line of sin, the number of the call that wrote it
    ftags,         \* for each frame of frames, its ordinal and the call it answers
    gotTag,        \* the ordinal and call of the frame the last read met
    nframes,       \* frames the child has begun to emit after the startup byte
    res,           \* bytes the pending read_until has taken off the stream so far
    skew           \* what has happened that shifts frames against calls

vars == <<pc, child, argv, kill_on_drop, sin, sout, frames, op, lastWrite, got,
          result, ret, ncalls, ncloses, launch, req, sinTags, ftags, gotTag,
          nframes, res, skew>>

\* The ordinal of a frame among the child's answers, the number of the call
\* whose request line it answers, and how many of its bytes were taken off
\* the stream by reads that were dropped; NoTag for the startup byte and for
\* a read that met no frame.
NoTag == [idx |-> 0, call |-> 0, lost |-> 0]
Tag(i, c) == [idx |-> i, call |-> c, lost |-> 0]

NoLaunch == [state |-> "none", name |-> "", opts |-> [some |-> FALSE, exepath |-> "", args |-> <<>>]]
NoReq == [via |-> "", text |-> <<>>]

\* A frame: its payload, whether the child terminated it, and whether a read
\* has met it (NoFrame: no read has run).
NoFrame == [payload |-> <<>>, term |-> FALSE, seen |-> FALSE]
Frame(p, t) == [payload |-> p, term |-> t, seen |-> TRUE]

\* Spawn configurations: none, the default tool with two extra arguments, and
\* an executable that does not exist.
NoOpts == [some |-> FALSE, exepath |-> "", args |-> <<>>]
SomeOpts(e, a) == [some |-> TRUE, exepath |-> e, args |-> a]
OptsSet == {NoOpts, SomeOpts("r2", <<"-w", "-n">>), SomeOpts("/nonexistent", <<>>)}
Targets == {"/bin/ls"}
Executables == {"r2"}

Init ==
    /\ pc = "init"
    /\ child = "none"
    /\ argv = <<>>
    /\ kill_on_drop = FALSE
    /\ sin = <<>>
    /\ sout = <<>>
    /\ frames = <<>>
    /\ op = "none"
    /\ lastWrite = <<>>
    /\ got = NoFrame
    /\ result = NoRet
    /\ ret = NoRet
    /\ ncalls = 0
    /\ ncloses = 0
    /\ launch = NoLaunch
    /\ req = NoReq
    /\ sinTags = <<>>
    /\ ftags = <<>>
    /\ gotTag = NoTag
    /\ nframes = 0
    /\ res = <<>>
    /\ skew = {}

\* The child's stdout has ended once it is gone and its bytes are read.
ChildGone == child \in {"exited", "killed"}

\* Dropping the Child handle: the process is killed when configured so.
DropChild(c, kod) == IF c \in {"starting", "running"} /\ kod THEN "killed" ELSE c

\* ---------------------------------------------------------------- spawn
SpawnExepath(opts) == IF opts.some THEN opts.exepath ELSE "r2"
SpawnArgs(opts) == IF opts.some THEN opts.args ELSE <<>>
\* The argument list with the caller's arguments put first.
SpawnArgvArgsFirst(name, opts) == SpawnArgs(opts) \o <<"-q0", name>>

SpawnArgv(name, opts) == <<"-q0">> \o SpawnArgs(opts) \o <<name>>
SpawnKillOnDropOff == FALSE
SpawnKillOnDrop == TRUE

\* spawn with the error of Command::spawn() swallowed.
SpawnStartUnchecked(name, opts, started) ==
    /\ pc = "init"
    /\ started => SpawnExepath(opts) \in Executables
    /\ op' = "spawn"
    /\ launch' = [state |-> IF started THEN "started" ELSE "refused",
                  name |-> name, opts |-> opts]
    /\ IF started
       THEN /\ child' = "starting"
            /\ argv' = SpawnArgv(name, opts)
            /\ kill_on_drop' = SpawnKillOnDrop
            /\ pc' = "handshake"
            /\ ret' = ret
       ELSE /\ pc' = "idle"
            /\ ret' = OkTransport
            /\ UNCHANGED <<child, argv, kill_on_drop>>
    /\ UNCHANGED <<sin, sout, frames, lastWrite, got, result, ncalls, ncloses,
                   req, sinTags, ftags, gotTag, nframes, skew, res>>

\* R2PipeAsync::spawn up to Command::spawn()?: the process is started, or
\* spawn returns the error.
SpawnStart(name, opts, started) ==
    /\ pc = "init"
    /\ started => SpawnExepath(opts) \in Executables
    /\ op' = "spawn"
    /\ launch' = [state |-> IF started THEN "started" ELSE "refused",
                  name |-> name, opts |-> opts]
    /\ IF started
       THEN /\ child' = "starting"
            /\ argv' = SpawnArgv(name, opts)
            /\ kill_on_drop' = SpawnKillOnDrop
            /\ pc' = "handshake"
            /\ ret' = ret
       ELSE /\ pc' = "failed"
            /\ ret' = FromIo("spawn")
            /\ UNCHANGED <<child, argv, kill_on_drop>>
    /\ UNCHANGED <<sin, sout, frames, lastWrite, got, result, ncalls, ncloses,
                   req, sinTags, ftags, gotTag, nframes, skew, res>>

\* spawn without the handshake read: the transport is built at once.
SpawnNoHandshake(closed) ==
    /\ pc = "handshake"
    /\ ~closed
    /\ pc' = "idle"
    /\ ret' = OkTransport
    /\ UNCHANGED <<child, sout, frames, ftags, argv, kill_on_drop, sin, op, lastWrite,
                   got, result, ncalls, ncloses, launch, req, sinTags, gotTag, nframes,
                   skew, res>>

\* spawn keeping the Child alive when the handshake read fails.
SpawnHandshakeLeak(closed) ==
    /\ pc = "handshake"
    /\ IF Len(sout) >= 1
       THEN /\ ~closed
            /\ sout' = Tail(sout)
            /\ frames' = Tail(frames)
            /\ ftags' = Tail(ftags)
            /\ pc' = "idle"
            /\ ret' = OkTransport
       ELSE /\ closed \/ ChildGone
            /\ pc' = "failed"
            /\ ret' = FromIo("spawn")
            /\ UNCHANGED <<sout, frames, ftags>>
    /\ UNCHANGED <<child, argv, kill_on_drop, sin, op, lastWrite, got, result, ncalls,
                   ncloses, launch, req, sinTags, gotTag, nframes, skew, res>>

\* read_exact of the one startup byte, then the transport is built.  When the
\* stream has ended instead (the child exited, or closed its stdout without
\* writing: closed), spawn returns the error and the Child is dropped.
SpawnHandshake(closed) ==
    /\ pc = "handshake"
    /\ IF Len(sout) >= 1
       THEN /\ ~closed
            /\ sout' = Tail(sout)
            /\ frames' = Tail(frames)
            /\ ftags' = Tail(ftags)
            /\ pc' = "idle"
            /\ ret' = OkTransport
            /\ child' = child
       ELSE /\ closed \/ ChildGone
            /\ pc' = "failed"
            /\ ret' = FromIo("spawn")
            /\ child' = DropChild(child, kill_on_drop)
            /\ UNCHANGED <<sout, frames, ftags>>
    /\ UNCHANGED <<argv, kill_on_drop, sin, op, lastWrite, got, result, ncalls, ncloses,
                   launch, req, sinTags, gotTag, nframes, skew, res>>

\* The caller drops the future of spawn while the handshake read is pending:
\* the Child, a local of the future, is dropped with it and no transport is
\* built; spawn returns nothing.
SpawnCancel ==
    /\ pc = "handshake"
    /\ pc' = "cancelled"
    /\ child' = DropChild(child, kill_on_drop)
    /\ UNCHANGED <<argv, kill_on_drop, sin, sout, frames, op, lastWrite, got, result,
                   ret, ncalls, ncloses, launch, req, sinTags, ftags, gotTag, nframes,
                   skew, res>>

\* ------------------------------------------------------------- the child
\* The bytes of sin after its first line.
AfterLine(b) == SubSeq(b, IndexOf(b, LF) + 1, Len(b))

\* The child has written part of an answer and not yet its terminator.
MidFrame == child = "running" /\ frames # <<>> /\ ~frames[Len(frames)].term

\* radare2 -q0 writes one null byte when it is ready for its first command.
ChildStartup ==
    /\ child = "starting"
    /\ child' = "running"
    /\ sout' = sout \o <<NUL>>
    /\ frames' = Append(frames, Frame(<<>>, TRUE))
    /\ ftags' = Append(ftags, NoTag)
    /\ UNCHANGED <<pc, argv, kill_on_drop, sin, op, lastWrite, got, result, ret,
                   ncalls, ncloses, launch, req, sinTags, gotTag, nframes, skew, res>>

\* The child takes one request line and answers with payload p and the
\* terminator.
ChildRespond(p) ==
    /\ child = "running"
    /\ ~MidFrame
    /\ IndexOf(sin, LF) > 0
    /\ Len(sout) + Len(p) + 1 <= MaxBuf
    /\ sin' = AfterLine(sin)
    /\ sout' = sout \o p \o <<NUL>>
    /\ frames' = Append(frames, Frame(p, TRUE))
    /\ ftags' = Append(ftags, Tag(nframes + 1, Head(sinTags)))
    /\ sinTags' = Tail(sinTags)
    /\ nframes' = nframes + 1
    /\ UNCHANGED <<pc, child, argv, kill_on_drop, op, lastWrite, got, result, ret,
                   ncalls, ncloses, launch, req, gotTag, skew, res>>

\* The child takes one request line, writes only p of its answer and exits.
ChildCrash(p) ==
    /\ child = "running"
    /\ ~MidFrame
    /\ IndexOf(sin, LF) > 0
    /\ p # <<>>
    /\ Len(sout) + Len(p) <= MaxBuf
    /\ sin' = AfterLine(sin)
    /\ sout' = sout \o p
    /\ frames' = Append(frames, Frame(p, FALSE))
    /\ ftags' = Append(ftags, Tag(nframes + 1, Head(sinTags)))
    /\ sinTags' = Tail(sinTags)
    /\ nframes' = nframes + 1
    /\ child' = "exited"
    /\ UNCHANGED <<pc, argv, kill_on_drop, op, lastWrite, got, result, ret,
                   ncalls, ncloses, launch, req, gotTag, skew, res>>

\* The child takes one request line and writes the first bytes p of its
\* answer; the rest and the terminator come with a later write.
ChildBegin(p) ==
    /\ child = "running"
    /\ ~MidFrame
    /\ IndexOf(sin, LF) > 0
    /\ p # <<>>
    /\ Len(sout) + Len(p) + 1 <= MaxBuf
    /\ sin' = AfterLine(sin)
    /\ sout' = sout \o p
    /\ frames' = Append(frames, Frame(p, FALSE))
    /\ ftags' = Append(ftags, Tag(nframes + 1, Head(sinTags)))
    /\ sinTags' = Tail(sinTags)
    /\ nframes' = nframes + 1
    /\ UNCHANGED <<pc, child, argv, kill_on_drop, op, lastWrite, got, result, ret,
                   ncalls, ncloses, launch, req, gotTag, skew, res>>

\* The child writes the rest q of the answer it began, and the terminator.
ChildFinish(q) ==
    /\ MidFrame
    /\ Len(frames[Len(frames)].payload) + Len(q) <= MaxLen
    /\ Len(sout) + Len(q) + 1 <= MaxBuf
    /\ sout' = sout \o q \o <<NUL>>
    /\ frames' = [frames EXCEPT ![Len(frames)] = Frame(@.payload \o q, TRUE)]
    /\ UNCHANGED <<pc, child, argv, kill_on_drop, sin, op, lastWrite, got, result, ret,
                   ncalls, ncloses, launch, req, sinTags, ftags, gotTag, nframes, skew,
                   res>>

\* The child exits on its own.
ChildExit ==
    /\ child \in {"starting", "running"}
    /\ child' = "exited"
    /\ UNCHANGED <<pc, argv, kill_on_drop, sin, sout, frames, op, lastWrite, got,
                   result, ret, ncalls, ncloses, launch, req, sinTags, ftags, gotTag,
                   nframes, skew, res>>

\* ------------------------------------------------------------ cmd, cmdj
\* One tag c for every line of the bytes b.
LineTags(b, c) == [i \in 1..Len(SelectSeq(b, LAMBDA x : x = LF)) |-> c]

\* cmd taking the transport by shared reference: a call can start while
\* another has written its request and not yet read.
CmdSendShared(kind, via, text) ==
    /\ pc \in {"idle", "sent"}
    /\ ncalls < MaxCalls
    /\ op' = kind
    /\ ncalls' = ncalls + 1
    /\ got' = NoFrame
    /\ gotTag' = NoTag
    /\ req' = [via |-> via, text |-> text]
    /\ IF child = "running"
       THEN /\ sin' = sin \o RequestLine(EntryText(via, text))
            /\ lastWrite' = RequestLine(EntryText(via, text))
            /\ sinTags' = sinTags \o LineTags(RequestLine(EntryText(via, text)), ncalls + 1)
            /\ skew' = IF Len(LineTags(RequestLine(EntryText(via, text)), 0)) > 1
                       THEN skew \cup {"multiline"} ELSE skew
            /\ pc' = "sent"
            /\ result' = NoRet
            /\ ret' = NoRet
       ELSE /\ result' = FromIo("cmd")
            /\ ret' = FromIo("cmd")
            /\ UNCHANGED <<sin, lastWrite, pc, sinTags, skew>>
    /\ res' = <<>>
    /\ UNCHANGED <<child, argv, kill_on_drop, sout, frames, ncloses, launch, ftags,
                   nframes>>

\* cmd with the result of write_all discarded: the read is issued whether or
\* not the request was written.
CmdSendIgnoreWriteError(kind, via, text) ==
    /\ pc = "idle"
    /\ ncalls < MaxCalls
    /\ op' = kind
    /\ ncalls' = ncalls + 1
    /\ got' = NoFrame
    /\ gotTag' = NoTag
    /\ req' = [via |-> via, text |-> text]
    /\ pc' = "sent"
    /\ result' = NoRet
    /\ ret' = NoRet
    /\ IF child = "running"
       THEN /\ sin' = sin \o RequestLine(EntryText(via, text))
            /\ lastWrite' = RequestLine(EntryText(via, text))
            /\ sinTags' = sinTags \o LineTags(RequestLine(EntryText(via, text)), ncalls + 1)
            /\ skew' = IF Len(LineTags(RequestLine(EntryText(via, text)), 0)) > 1
                       THEN skew \cup {"multiline"} ELSE skew
       ELSE UNCHANGED <<sin, lastWrite, sinTags, skew>>
    /\ res' = <<>>
    /\ UNCHANGED <<child, argv, kill_on_drop, sout, frames, ncloses, launch, ftags,
                   nframes>>

\* A call of cmd or cmdj (kind) through `via`, up to the end of write_all:
\* the request line is on the child's stdin, or the write failed and the call
\* returned the error without reading.
CmdSend(kind, via, text) ==
    /\ pc = "idle"
    /\ ncalls < MaxCalls
    /\ op' = kind
    /\ ncalls' = ncalls + 1
    /\ got' = NoFrame
    /\ gotTag' = NoTag
    /\ req' = [via |-> via, text |-> text]
    /\ IF child = "running"
       THEN /\ sin' = sin \o RequestLine(EntryText(via, text))
            /\ lastWrite' = RequestLine(EntryText(via, text))
            /\ sinTags' = sinTags \o LineTags(RequestLine(EntryText(via, text)), ncalls + 1)
            /\ skew' = IF Len(LineTags(RequestLine(EntryText(via, text)), 0)) > 1
                       THEN skew \cup {"multiline"} ELSE skew
            /\ pc' = "sent"
            /\ result' = NoRet
            /\ ret' = NoRet
       ELSE /\ result' = FromIo("cmd")
            /\ ret' = FromIo("cmd")
            /\ UNCHANGED <<sin, lastWrite, pc, sinTags, skew>>
    /\ res' = <<>>
    /\ UNCHANGED <<child, argv, kill_on_drop, sout, frames, ncloses, launch, ftags,
                   nframes>>

\* read_until polled while the stream holds bytes and no terminator: it
\* moves them into res and stays pending.
CmdPoll ==
    /\ pc = "sent"
    /\ ~ReadReady(NUL, sout, ChildGone)
    /\ sout # <<>>
    /\ res' = res \o read_until(NUL, sout).res
    /\ sout' = read_until(NUL, sout).rest
    /\ UNCHANGED <<pc, child, argv, kill_on_drop, sin, frames, op, lastWrite, got,
                   result, ret, ncalls, ncloses, launch, req, sinTags, ftags, gotTag,
                   nframes, skew>>

\* The rest of the call: read_until meets the terminator or the end of the
\* stream, then process_result on all the bytes it took, and for cmdj the
\* empty check and the JSON parse.
CmdRecv ==
    /\ pc = "sent"
    /\ ReadReady(NUL, sout, ChildGone)
    /\ LET r == read_until(NUL, sout)
           text == cmd_result(res \o r.res)
       IN  /\ sout' = r.rest
           /\ result' = text
           /\ ret' = IF op = "cmdj" THEN cmdj_result(text) ELSE text
    /\ got' = IF frames = <<>> THEN Frame(<<>>, FALSE) ELSE Head(frames)
    /\ frames' = IF frames = <<>> THEN <<>> ELSE Tail(frames)
    /\ gotTag' = IF ftags = <<>> THEN NoTag ELSE Head(ftags)
    /\ ftags' = IF ftags = <<>> THEN <<>> ELSE Tail(ftags)
    /\ pc' = "idle"
    /\ res' = <<>>
    /\ UNCHANGED <<child, argv, kill_on_drop, sin, op, lastWrite, ncalls, ncloses,
                   launch, req, sinTags, nframes, skew>>

\* Cancellation that resynchronises: the request and whatever answers it are
\* discarded with the call.
CmdCancelResync ==
    /\ pc = "sent"
    /\ pc' = "idle"
    /\ op' = "cancel"
    /\ skew' = skew \cup {"cancel"}
    /\ sin' = <<>>
    /\ sinTags' = <<>>
    /\ sout' = <<>>
    /\ frames' = <<>>
    /\ ftags' = <<>>
    /\ res' = <<>>
    /\ UNCHANGED <<child, argv, kill_on_drop, lastWrite, got, result, ret, ncalls,
                   ncloses, launch, req, gotTag, nframes>>

\* The caller drops the future of a call after its write and before its read
\* has returned: the bytes the read had taken off the stream (res, a local of
\* the future) are dropped with it, the unread ones stay.
CmdCancel ==
    /\ pc = "sent"
    /\ pc' = "idle"
    /\ op' = "cancel"
    /\ skew' = skew \cup {"cancel"}
    /\ res' = <<>>
    /\ ftags' = IF res = <<>> THEN ftags
                ELSE [ftags EXCEPT ![1].lost = @ + Len(res)]
    /\ UNCHANGED <<child, argv, kill_on_drop, sin, sout, frames, lastWrite, got,
                   result, ret, ncalls, ncloses, launch, req, sinTags, gotTag,
                   nframes>>

\* ------------------------------------------------------------ close, drop
\* close with the quit command unwrapped: its error reaches the caller.
CloseUnwrap ==
    /\ pc = "idle"
    /\ ncloses < MaxCloses
    /\ ncloses' = ncloses + 1
    /\ op' = "close"
    /\ ret' = IF child = "running" THEN UnitRet ELSE FromIo("cmd")
    /\ UNCHANGED <<pc, child, argv, kill_on_drop, sin, sout, frames, lastWrite, got,
                   result, ncalls, launch, req, sinTags, ftags, gotTag, nframes, skew, res>>

\* R2PipeSpawnAsync::close: `let _ = self.cmd("q!")` and `let _ = child.wait()`
\* build two futures and drop them unpolled, so nothing is written, nothing
\* is read and nothing is waited for; close returns unit.
Close ==
    /\ pc = "idle"
    /\ ncloses < MaxCloses
    /\ ncloses' = ncloses + 1
    /\ op' = "close"
    /\ ret' = UnitRet
    /\ UNCHANGED <<pc, child, argv, kill_on_drop, sin, sout, frames, lastWrite, got,
                   result, ncalls, launch, req, sinTags, ftags, gotTag, nframes, skew, res>>

\* The transport goes out of scope: its Child is dropped with it.
Drop ==
    /\ pc = "idle"
    /\ pc' = "dropped"
    /\ op' = "drop"
    /\ child' = DropChild(child, kill_on_drop)
    /\ UNCHANGED <<argv, kill_on_drop, sin, sout, frames, lastWrite, got, result, ret,
                   ncalls, ncloses, launch, req, sinTags, ftags, gotTag, nframes, skew, res>>

\* ---------------------------------------------------------- specification
Next ==
    \/ \E name \in Targets, opts \in OptsSet, started \in BOOLEAN :
           SpawnStart(name, opts, started)
    \/ \E closed \in BOOLEAN : SpawnHandshake(closed)
    \/ SpawnCancel
    \/ ChildStartup
    \/ \E p \in Payloads : ChildRespond(p)
    \/ \E p \in Payloads : ChildCrash(p)
    \/ \E p \in Payloads : ChildBegin(p)
    \/ \E q \in Payloads : ChildFinish(q)
    \/ ChildExit
    \/ \E kind \in {"cmd", "cmdj"}, via \in Entries, text \in Texts :
           CmdSend(kind, via, text)
    \/ CmdPoll
    \/ CmdRecv
    \/ CmdCancel
    \/ Close
    \/ Drop

Spec == Init /\ [][Next]_vars

\* One call on an open transport, for every payload of at most MaxText bytes:
\* the transport was spawned without options, the call has written its
\* request and the child has answered it with payload p.
InitFrame ==
    \E kind \in {"cmd", "cmdj"}, p \in AllPayloads :
        /\ pc = "sent"
        /\ child = "running"
        /\ argv = SpawnArgv("/bin/ls", NoOpts)
        /\ kill_on_drop = SpawnKillOnDrop
        /\ sin = <<>>
        /\ sout = p \o <<NUL>>
        /\ frames = <<Frame(p, TRUE)>>
        /\ op = kind
        /\ lastWrite = RequestLine(<<105>>)
        /\ got = NoFrame
        /\ result = NoRet
        /\ ret = NoRet
        /\ ncalls = 1
        /\ ncloses = 0
        /\ launch = [state |-> "started", name |-> "/bin/ls", opts |-> NoOpts]
        /\ req = [via |-> "R2PipeAsync", text |-> <<105>>]
        /\ sinTags = <<>>
        /\ ftags = <<Tag(1, 1)>>
        /\ gotTag = NoTag
        /\ nframes = 1
        /\ res = <<>>
        /\ skew = {}

NextFrame == CmdRecv

SpecFrame == InitFrame /\ [][NextFrame]_vars

\* ================================================================ claims
\* A cmd or cmdj call has returned and nothing was called since.
CallDone == pc = "idle" /\ op \in {"cmd", "cmdj"} /\ result.kind # "None"

\* The last call returned after reading from the child's stdout.
ReadDone == CallDone /\ got.seen

\* C1: when close() is called on an open transport whose child is alive, the
\* quit line "q!\n" has been written to the child's stdin when close returns.
CloseSendsQuit ==
    (op = "close" /\ child = "running") => lastWrite = as_bytes(QuitText) \o <<LF>>

\* C2: after close() returns, the child process is no longer running.
CloseWaitsForExit ==
    op = "close" => child \notin {"starting", "running"}

\* C3: close always returns unit, whatever the state of the transport and of
\* the child and however often it was called before; it never returns an error.
CloseNeverFails ==
    /\ op = "close" => ret = UnitRet
    /\ (pc = "idle" /\ ncloses < MaxCloses) => ENABLED Close

CloseTwiceAfterExit ==
    op = "close" /\ ncloses >= 2 /\ child = "exited" /\ ret = UnitRet

\* C4: when the child's output ends before a null byte was read, the call
\* fails with ProtocolError; the bytes read so far are never returned.
PrematureEofFails ==
    (ReadDone /\ ~got.term) =>
        /\ result = Err("ProtocolError")
        /\ ret = Err("ProtocolError")

PartialFrameRejected ==
    /\ ReadDone /\ op = "cmd"
    /\ ~got.term /\ got.payload # <<>>
    /\ ret = Err("ProtocolError")

\* Well-formed UTF-8, by the table of well-formed byte sequences.
WellFormedChunk(c) ==
    LET n == Len(c)
        Tail8(k) == c[k] \in 128..191
    IN  \/ n = 1 /\ c[1] \in 0..127
        \/ n = 2 /\ c[1] \in 194..223 /\ Tail8(2)
        \/ n = 3 /\ c[1] = 224 /\ c[2] \in 160..191 /\ Tail8(3)
        \/ n = 3 /\ c[1] \in 225..236 /\ Tail8(2) /\ Tail8(3)
        \/ n = 3 /\ c[1] = 237 /\ c[2] \in 128..159 /\ Tail8(3)
        \/ n = 3 /\ c[1] \in 238..239 /\ Tail8(2) /\ Tail8(3)
        \/ n = 4 /\ c[1] = 240 /\ c[2] \in 144..191 /\ Tail8(3) /\ Tail8(4)
        \/ n = 4 /\ c[1] \in 241..243 /\ Tail8(2) /\ Tail8(3) /\ Tail8(4)
        \/ n = 4 /\ c[1] = 244 /\ c[2] \in 128..143 /\ Tail8(3) /\ Tail8(4)

RECURSIVE WellFormedUtf8(_)
WellFormedUtf8(b) ==
    \/ b = <<>>
    \/ \E n \in 1..4 :
           /\ n <= Len(b)
           /\ WellFormedChunk(SubSeq(b, 1, n))
           /\ WellFormedUtf8(SubSeq(b, n + 1, Len(b)))

\* C5: when the child answers with bytes R and one null byte, R being UTF-8,
\* cmd returns the text whose UTF-8 encoding is exactly R: no terminator in
\* it, no byte of R missing.
CmdRoundTrip ==
    (ReadDone /\ got.term /\ WellFormedUtf8(got.payload)) =>
        /\ result.kind = "Str"
        /\ as_bytes(result.str) = got.payload
        /\ op = "cmd" => ret = result

CmdReturnsMultibyteText ==
    /\ ReadDone /\ op = "cmd"
    /\ got = Frame(<<49, 195, 169>>, TRUE)
    /\ ret = OkStr(<<49, 233>>)

\* C6: an empty frame, the null byte alone, makes cmd return the empty
\* string, not an error.
EmptyFrameIsEmptyText ==
    (ReadDone /\ got.term /\ got.payload = <<>>) =>
        /\ result = OkStr(<<>>)
        /\ op = "cmd" => ret = OkStr(<<>>)

EmptyFrameReturned ==
    ReadDone /\ op = "cmd" /\ got = Frame(<<>>, TRUE) /\ ret = OkStr(<<>>)

\* C7: when the response text is empty, cmdj fails with EmptyResponse: not
\* with MalformedJson, and not with a value.
EmptyResponseIsError ==
    (CallDone /\ op = "cmdj" /\ result = OkStr(<<>>)) => ret = Err("EmptyResponse")

EmptyResponseReported ==
    /\ CallDone /\ op = "cmdj"
    /\ got = Frame(<<>>, TRUE)
    /\ result = OkStr(<<>>)
    /\ ret = Err("EmptyResponse")

\* JSON over whitespace, unsigned integers and arrays, by its grammar.
JsonWs == {9, 10, 13, 32}

RECURSIVE StripWs(_)
StripWs(s) ==
    IF s = <<>> THEN s
    ELSE IF s[1] \in JsonWs THEN StripWs(Tail(s))
    ELSE IF s[Len(s)] \in JsonWs THEN StripWs(SubSeq(s, 1, Len(s) - 1))
    ELSE s

IsJsonNumber(s) ==
    /\ s # <<>>
    /\ \A i \in 1..Len(s) : s[i] \in 48..57
    /\ Len(s) > 1 => s[1] # 48

RECURSIVE IsJsonValue(_)
RECURSIVE IsJsonElems(_)

\* s, without whitespace around it, is a number or an array.
IsJsonValue(s) ==
    \/ IsJsonNumber(s)
    \/ /\ Len(s) >= 2
       /\ s[1] = 91
       /\ s[Len(s)] = 93
       /\ LET inner == SubSeq(s, 2, Len(s) - 1)
          IN  StripWs(inner) = <<>> \/ IsJsonElems(inner)

\* s is one or more values separated by commas.
IsJsonElems(s) ==
    \/ IsJsonValue(StripWs(s))
    \/ \E k \in 1..Len(s) :
           /\ s[k] = 44
           /\ IsJsonValue(StripWs(SubSeq(s, 1, k - 1)))
           /\ IsJsonElems(SubSeq(s, k + 1, Len(s)))

IsJsonText(s) == IsJsonValue(StripWs(s))

\* C8: when the response text is not empty and not JSON, cmdj fails with
\* MalformedJson.
MalformedJsonIsError ==
    (CallDone /\ op = "cmdj" /\ result.kind = "Str" /\ result.str # <<>>
        /\ ~IsJsonText(result.str)) => ret = Err("MalformedJson")

LeadingZeroRejected ==
    /\ CallDone /\ op = "cmdj"
    /\ got = Frame(<<48, 49>>, TRUE)
    /\ result = OkStr(<<48, 49>>)
    /\ ret = Err("MalformedJson")

\* The canonical text of a JSON value.
RECURSIVE DecimalDigits(_)
DecimalDigits(k) ==
    IF k < 10 THEN <<48 + k>> ELSE DecimalDigits(k \div 10) \o <<48 + (k % 10)>>

RECURSIVE PrintJson(_)
RECURSIVE PrintElems(_)
PrintJson(v) ==
    IF v.t = "num" THEN DecimalDigits(v.n)
    ELSE IF v.t = "arr" THEN <<91>> \o PrintElems(v.a) \o <<93>>
    ELSE <<>>

PrintElems(elems) ==
    IF elems = <<>> THEN <<>>
    ELSE IF Len(elems) = 1 THEN PrintJson(elems[1])
    ELSE PrintJson(elems[1]) \o <<44>> \o PrintElems(Tail(elems))

NotJsonWs(c) == c \notin JsonWs

\* C9: when the response text is not empty and is JSON, cmdj returns the
\* value that text denotes: printed back, the value is the text without its
\* whitespace.
ValidJsonIsParsed ==
    (CallDone /\ op = "cmdj" /\ result.kind = "Str" /\ result.str # <<>>
        /\ IsJsonText(result.str)) =>
        /\ ret.kind = "Json"
        /\ PrintJson(ret.json) = SelectSeq(result.str, NotJsonWs)

ArrayParsed ==
    /\ CallDone /\ op = "cmdj"
    /\ got = Frame(<<91, 49, 93>>, TRUE)
    /\ ret = OkJson(JArr(<<JNum(1)>>))

\* C10: once a transport was dropped without close having been called, its
\* child is not running.
DropKillsChild ==
    (pc = "dropped" /\ ncloses = 0) => child \notin {"starting", "running"}

DroppedUnclosedKilled ==
    pc = "dropped" /\ ncloses = 0 /\ child = "killed"

\* C11: when the executable cannot be started, spawn returns the error
\* SpawnFailed, builds no transport and leaves no child process.
SpawnRefusedFails ==
    launch.state = "refused" =>
        /\ pc = "failed"
        /\ ret = Err("SpawnFailed")
        /\ child = "none"

NonexistentRefused ==
    /\ launch.state = "refused"
    /\ launch.opts = SomeOpts("/nonexistent", <<>>)
    /\ pc = "failed" /\ ret.kind = "Err" /\ child = "none"

\* C12: when spawn has returned a transport, the startup byte and nothing
\* else has been read, and the first command reads the first frame the child
\* emits after it, whole.
HandshakeConsumesStartupByte ==
    /\ (op = "spawn" /\ pc = "idle") => (ret = OkTransport /\ sout = <<>>)
    /\ (ReadDone /\ ncalls = 1 /\ got.term) =>
           /\ gotTag.idx = 1
           /\ WellFormedUtf8(got.payload) =>
                  (result.kind = "Str" /\ as_bytes(result.str) = got.payload)

FirstCommandReadsFirstFrame ==
    /\ ReadDone /\ ncalls = 1 /\ op = "cmd"
    /\ gotTag = Tag(1, 1)
    /\ got = Frame(<<49>>, TRUE)
    /\ ret = OkStr(<<49>>)

\* C13: the child's argument list is "-q0", then the caller's extra arguments
\* in their order, then the target path, for every spawn configuration.
ArgvIsQ0ArgsTarget ==
    launch.state = "started" =>
        LET extra == IF launch.opts.some THEN launch.opts.args ELSE <<>>
        IN  /\ Len(argv) = Len(extra) + 2
            /\ argv[1] = "-q0"
            /\ \A i \in 1..Len(extra) : argv[i + 1] = extra[i]
            /\ argv[Len(argv)] = launch.name

ArgvWithTwoExtraArgs ==
    /\ launch.state = "started"
    /\ launch.opts = SomeOpts("r2", <<"-w", "-n">>)
    /\ argv = <<"-q0", "-w", "-n", "/bin/ls">>

\* C14: when the handshake read fails after the child was started, spawn
\* returns an error, builds no transport, and the child is not left running.
HandshakeFailureKillsChild ==
    (pc = "failed" /\ launch.state = "started") =>
        /\ ret.kind = "Err"
        /\ child \in {"exited", "killed"}

HandshakeFailedChildKilled ==
    /\ pc = "failed" /\ launch.state = "started"
    /\ ret.kind = "Err"
    /\ child = "killed"

\* The calls whose answers are still ahead of the reader: asked of the child
\* and not yet answered, or answered and not yet read.
Outstanding == {sinTags[i] : i \in 1..Len(sinTags)} \cup {ftags[i].call : i \in 1..Len(ftags)}

\* C15 as stated: when a call is cancelled after its request was written and
\* before its response was fully read, the response stays ahead of the reader,
\* and a later call that reads a frame is handed the answer to an earlier
\* request, not to its own: what it returns is that stale response.
CancelLeavesStaleResponse ==
    /\ (pc = "idle" /\ op = "cancel") => ncalls \in Outstanding
    /\ ("cancel" \in skew /\ ReadDone /\ gotTag.call > 0) =>
           /\ gotTag.call < ncalls
           /\ (got.term /\ WellFormedUtf8(got.payload)) =>
                  (result.kind = "Str" /\ as_bytes(result.str) = got.payload)

\* What is left of a frame's payload after its first n bytes.
Remainder(payload, n) == SubSeq(payload, n + 1, Len(payload))

\* C15, amended: when a call is cancelled after its request was written and
\* before its response was fully read, the bytes of the response the call had
\* already read are lost with it and the unread ones stay in the stream;
\* nothing discards them, and a later call that reads a frame is handed the
\* answer to an earlier request, not to its own: what it returns is the
\* unread remainder of that stale response, which is the whole response only
\* when no byte of it had been read.
CancelLeavesUnreadRemainder ==
    /\ (pc = "idle" /\ op = "cancel") => (ncalls \in Outstanding /\ res = <<>>)
    /\ ("cancel" \in skew /\ ReadDone /\ gotTag.call > 0) =>
           /\ gotTag.call < ncalls
           /\ gotTag.lost <= Len(got.payload)
           /\ (got.term /\ WellFormedUtf8(Remainder(got.payload, gotTag.lost))) =>
                  /\ result.kind = "Str"
                  /\ as_bytes(result.str) = Remainder(got.payload, gotTag.lost)

StaleRemainderReturned ==
    /\ "cancel" \in skew
    /\ ncalls = 2
    /\ ReadDone
    /\ op = "cmd"
    /\ gotTag = [idx |-> 1, call |-> 1, lost |-> 1]
    /\ got = Frame(<<49>>, TRUE)
    /\ ret = OkStr(<<>>)

\* C16: within a call the whole request line is written before the read is
\* issued; a call whose write fails returns IoError having read nothing,
\* with the unread bytes of the stream as they were, the transport still
\* open and the child not released.
WriteBeforeRead ==
    [][/\ ((~got.seen /\ got'.seen) \/ Len(res') > Len(res)) =>
              /\ pc = "sent"
              /\ lastWrite = RequestLine(EntryText(req.via, req.text))
       /\ (ncalls' = ncalls + 1 /\ sin' = sin) =>
              /\ pc' = "idle"
              /\ ret' = Err("IoError")
              /\ ~got'.seen
              /\ res' = <<>>
              /\ UNCHANGED <<sout, frames, child, kill_on_drop>>]_vars

WriteFailedNothingRead ==
    /\ CallDone
    /\ ncalls = 2
    /\ ret = Err("IoError")
    /\ ~got.seen
    /\ sout # <<>>
    /\ child = "exited"

\* How many bytes of b are d.
Count(b, d) == Len(SelectSeq(b, LAMBDA x : x = d))

\* How many answers call c is still owed or has unread in the stream.
Answers(c) ==
    Len(SelectSeq(sinTags, LAMBDA t : t = c)) + Len(SelectSeq(ftags, LAMBDA t : t.call = c))

\* C17 as stated: for every request text without a null byte, what a call
\* writes is one line, its only newline the last byte, and the child owes the
\* call exactly one response frame.
OneLinePerCall ==
    (pc = "sent" /\ Count(as_bytes(req.text), NUL) = 0) =>
        /\ lastWrite # <<>>
        /\ lastWrite[Len(lastWrite)] = LF
        /\ Count(lastWrite, LF) = 1
        /\ Answers(ncalls) = 1

\* C17, amended: what a call writes is the text handed to
\* R2PipeSpawnAsync::cmd followed by one newline, nothing else; that is one
\* line exactly when the text holds no newline, and k + 1 lines when it holds
\* k, and the child owes one response frame for every line.
RequestIsTextThenNewline ==
    pc = "sent" =>
        LET t == as_bytes(EntryText(req.via, req.text))
        IN  /\ Len(lastWrite) = Len(t) + 1
            /\ SubSeq(lastWrite, 1, Len(t)) = t
            /\ lastWrite[Len(lastWrite)] = LF
            /\ Count(lastWrite, LF) = Count(t, LF) + 1
            /\ Answers(ncalls) = Count(lastWrite, LF)
            /\ (Count(t, LF) = 0) => (Count(lastWrite, LF) = 1 /\ Answers(ncalls) = 1)

SingleLineRequestSent ==
    /\ pc = "sent"
    /\ req = [via |-> "R2PipeSpawnAsync", text |-> <<32, 105, 32>>]
    /\ lastWrite = <<32, 105, 32, 10>>
    /\ Answers(ncalls) = 1

\* Every code point of s is whitespace.
WsOnly(s) == \A k \in 1..Len(s) : IsWhitespace(s[k])

\* t is text without its leading and trailing whitespace.
IsTrimOf(t, text) ==
    /\ t # <<>> => (~IsWhitespace(t[1]) /\ ~IsWhitespace(t[Len(t)]))
    /\ \E i \in 0..Len(text) :
           /\ i + Len(t) <= Len(text)
           /\ SubSeq(text, i + 1, i + Len(t)) = t
           /\ WsOnly(SubSeq(text, 1, i))
           /\ WsOnly(SubSeq(text, i + Len(t) + 1, Len(text)))

\* The bytes b are the trimmed text and one newline.
IsTrimmedLine(b, text) ==
    \E i \in 1..(Len(text) + 1), j \in 0..Len(text) :
        /\ IsTrimOf(SubSeq(text, i, j), text)
        /\ b = as_bytes(SubSeq(text, i, j)) \o <<LF>>

\* C18 as stated: through every public entry point, what a call writes is
\* the trimmed text and one newline.
TrimmedEverywhere == pc = "sent" => IsTrimmedLine(lastWrite, req.text)

\* C18, amended: a call through R2PipeAsync::cmd or R2PipeAsync::cmdj writes
\* the trimmed text and one newline; a call through R2PipeSpawnAsync::cmd or
\* R2PipeSpawnAsync::cmdj, public as well, writes the text as given and one
\* newline.
TrimmedByR2PipeAsyncOnly ==
    pc = "sent" =>
        IF req.via = "R2PipeAsync"
        THEN IsTrimmedLine(lastWrite, req.text)
        ELSE lastWrite = as_bytes(req.text) \o <<LF>>

TrimmedRequestSent ==
    /\ pc = "sent"
    /\ req = [via |-> "R2PipeAsync", text |-> <<32, 105, 32>>]
    /\ lastWrite = <<105, 10>>

\* The bytes of a sequence of frames as they lie in the stream.
RECURSIVE Flatten(_)
Flatten(fs) ==
    IF fs = <<>> THEN <<>>
    ELSE Head(fs).payload \o (IF Head(fs).term THEN <<NUL>> ELSE <<>>) \o Flatten(Tail(fs))

\* The errors of a call that read a whole frame and could not decode it.
DecodingErrors == {Err("EncodingError"), Err("EmptyResponse"), Err("MalformedJson")}

\* C19: as long as no call was cancelled, the bytes the pending read has
\* taken and the unread stream together always start at a frame boundary,
\* and the k-th call, when it reads a frame, reads the k-th frame the child
\* emitted after the startup byte, k frames then being consumed in all; so
\* also when the call fails in decoding, which happens on a whole, terminated
\* frame.
FramesAligned ==
    "cancel" \notin skew =>
        /\ res \o sout = Flatten(frames)
        /\ pc # "sent" => res = <<>>
        /\ (ReadDone /\ gotTag.idx > 0) =>
               /\ gotTag.idx = ncalls
               /\ nframes - Len(ftags) = ncalls
               /\ got.term => result = process_result(got.payload \o <<NUL>>)
        /\ (ReadDone /\ ret \in DecodingErrors) =>
               /\ got.term
               /\ gotTag.idx = ncalls
               /\ nframes - Len(ftags) = ncalls

SecondCallAfterDecodingFailure ==
    /\ "cancel" \notin skew
    /\ ReadDone
    /\ ncalls = 2
    /\ gotTag.idx = 2
    /\ got.term
    /\ ret \in DecodingErrors
    /\ frames # <<>>

\* A call has written its request and not read yet, the child is alive and
\* the caller has calls left to make.
InFlight == pc = "sent" /\ child = "running" /\ ncalls < MaxCalls

\* C20 as stated: nothing in the transport keeps a second call from starting
\* while a first is between its send and its receive, so the steps of two
\* calls can interleave.
CallsCanInterleave ==
    InFlight =>
        ENABLED (\E kind \in {"cmd", "cmdj"}, via \in Entries, text \in Texts :
                     CmdSend(kind, via, text))

\* C20, amended: a call starts only when no other call on the transport is
\* between its send and its receive (cmd and cmdj borrow the transport
\* exclusively for the whole call), so the steps of two calls never
\* interleave; a call reads the frame answering another call's request only
\* after a call was cancelled or a request held more than one line.
CallsNeverInterleave ==
    [][/\ (ncalls' # ncalls) => (pc = "idle" /\ ncalls' = ncalls + 1)
       /\ (ReadDone' /\ gotTag'.call > 0 /\ gotTag'.call # ncalls') => skew' # {}]_vars

OtherRequestsFrameAfterMultiline ==
    /\ ReadDone
    /\ ncalls = 2
    /\ gotTag = Tag(2, 1)
    /\ skew = {"multiline"}

====
